---- MODULE Spec2Model ----
(***************************************************************************)
(* The stepwise search engine of the path-finder visualisation             *)
(* (src/search.py, class SearchManager) together with the grid edits and   *)
(* the controls of src/main.py that drive it.                              *)
(*                                                                         *)
(* The engine is the record sm: one field per attribute of SearchManager.  *)
(* Every method is a pure operator from engine states to engine states,    *)
(* named as in the source; the actions at the end apply them.              *)
(***************************************************************************)
EXTENDS Integers, Sequences, FiniteSets

\* ------------------------------------------------------------------ bounds

\* The grid is GRID_SIZE x GRID_SIZE (the program runs with 15).
GRID_SIZE == 4

\* A maze of InitRun holds at most this many obstacles.
MaxObstacles == 1

\* A behaviour of Spec holds at most this many grid edits (clicks).
MaxEdits == 1

\* --------------------------------------------------------------- src/enums.py

GridState == {"START", "GOAL", "OBSTACLE", "UNEXPLORED", "SEEN", "CURRENT", "PATH"}

Algorithm == {"BFS", "DFS", "A_STAR", "GREEDY_BFS", "BEAM"}

\* Python's None, for a position that is absent.
None == <<>>

\* Cell(gridState): a fresh cell has no ancestor.
Cell(gridState) == [gridState |-> gridState, ancestor |-> None]

\* ------------------------------------------------------------ positions

Pos == (0 .. GRID_SIZE - 1) \X (0 .. GRID_SIZE - 1)

\* The offsets add_neighbors walks, in its order: up, right, down, left.
Directions == << <<-1, 0>>, <<0, 1>>, <<1, 0>>, <<0, -1>> >>

\* ------------------------------------------------- SearchManager.__init__

SearchManager ==
    [ grid             |-> [p \in Pos |-> Cell("UNEXPLORED")],
      bfs_queue        |-> <<>>,
      dfs_stack        |-> <<>>,
      a_star_queue     |-> <<>>,
      greedy_bfs_queue |-> <<>>,
      beam_queue       |-> <<>>,
      goal_pos         |-> None,
      start_pos        |-> None,
      path_started     |-> FALSE,
      last_explored    |-> None,
      finished         |-> FALSE,
      cells_visited    |-> 0 ]

\* ------------------------------------------------------ reset_grid, reset

\* The list comprehension of reset_grid: a cell that is neither SEEN nor PATH
\* is rebuilt with its state (its ancestor is dropped), the others are fresh.
reset_grid_cells(s) ==
    [p \in Pos |->
        IF s.grid[p].gridState # "SEEN" /\ s.grid[p].gridState # "PATH"
        THEN Cell(s.grid[p].gridState)
        ELSE Cell("UNEXPLORED")]

\* Then the cell at last_explored is cleared (a non-empty tuple is truthy), and
\* then the cell at goal_pos is made GOAL again.
reset_grid(s) ==
    LET g0 == reset_grid_cells(s)
        g1 == IF s.last_explored # None
              THEN [g0 EXCEPT ![s.last_explored] = Cell("UNEXPLORED")]
              ELSE g0
        g2 == IF s.goal_pos # None
              THEN [g1 EXCEPT ![s.goal_pos] = Cell("GOAL")]
              ELSE g1
    IN  [s EXCEPT !.grid = g2]

reset(s) ==
    [reset_grid(s) EXCEPT
        !.path_started     = FALSE,
        !.last_explored    = None,
        !.finished         = FALSE,
        !.cells_visited    = 0,
        !.bfs_queue        = <<>>,
        !.greedy_bfs_queue = <<>>,
        !.dfs_stack        = <<>>,
        !.a_star_queue     = <<>>,
        !.beam_queue       = <<>>]

\* ----------------------------------------------------- set_goal, set_start

set_goal(s, goal) ==
    LET g0 == IF s.goal_pos # None
              THEN [s.grid EXCEPT ![s.goal_pos].gridState = "UNEXPLORED"]
              ELSE s.grid
    IN  [s EXCEPT !.goal_pos = goal,
                  !.grid = [g0 EXCEPT ![goal].gridState = "GOAL"]]

set_start(s, start) ==
    LET s0 == IF s.path_started THEN reset(s) ELSE s
        g0 == IF s0.start_pos # None
              THEN [s0.grid EXCEPT ![s0.start_pos].gridState = "UNEXPLORED"]
              ELSE s0.grid
    IN  [s0 EXCEPT !.start_pos = start,
                   !.grid = [g0 EXCEPT ![start].gridState = "START"]]

\* ------------------------------------------------- heuristic, pathLength

\* heuristic(pos) is ((goal_x-cur_x)**2 + (goal_y-cur_y)**2) ** 0.5.  The model
\* keeps the radicand; a priority is the pair <<h2, g>>, standing for the float
\* sqrt(h2) + g, and priorities are compared exactly by KeyLess.
heuristic(s, pos) ==
    (s.goal_pos[1] - pos[1]) * (s.goal_pos[1] - pos[1])
  + (s.goal_pos[2] - pos[2]) * (s.goal_pos[2] - pos[2])

\* sqrt(k1[1]) + k1[2] < sqrt(k2[1]) + k2[2], in integer arithmetic.
KeyLess(k1, k2) ==
    LET a == k1[1]
        b == k2[1]
        d == k2[2] - k1[2]
    IN  IF d >= 0
        THEN LET c == a - b - d * d
             IN  c < 0 \/ c * c < 4 * d * d * b
        ELSE LET c == b - a - d * d
             IN  c > 0 /\ 4 * d * d * a < c * c

\* Python's order on positions (tuples of two ints).
PosLess(p, q) == p[1] < q[1] \/ (p[1] = q[1] /\ p[2] < q[2])

\* Python's order on the heap entries (priority, pos): by priority, and among
\* equal priorities by position.
EntryLess(e1, e2) ==
    \/ KeyLess(e1[1], e2[1])
    \/ ~KeyLess(e2[1], e1[1]) /\ PosLess(e1[2], e2[2])

\* A heap is modelled by the sequence of its entries in the order heappop
\* returns them.  heappush puts the entry after the entries not greater than it.
heappush(h, e) ==
    LET k == Cardinality({i \in DOMAIN h : ~EntryLess(e, h[i])})
    IN  SubSeq(h, 1, k) \o <<e>> \o SubSeq(h, k + 1, Len(h))

\* heappop: the smallest entry and the heap without it.
heappop(h) == [item |-> Head(h), rest |-> Tail(h)]

\* deque.popleft and list.pop.
popleft(q) == [item |-> Head(q), rest |-> Tail(q)]

pop(st) == [item |-> st[Len(st)], rest |-> SubSeq(st, 1, Len(st) - 1)]

\* list.remove: without the first occurrence of x.
remove(st, x) ==
    LET i == CHOOSE j \in DOMAIN st :
                 st[j] = x /\ \A k \in 1 .. j - 1 : st[k] # x
    IN  SubSeq(st, 1, i - 1) \o SubSeq(st, i + 1, Len(st))

\* The result of a walk along ancestors that never reaches start_pos: the
\* while loop of pathLength or colorPath does not return (it spins on a cycle,
\* or raises TypeError on an absent ancestor).
Diverges == -1

\* The while loop of pathLength, from pos, with `fuel` hops left.  A walk that
\* has not met start_pos after GRID_SIZE * GRID_SIZE hops has met a position
\* twice and never ends.
RECURSIVE pathLengthFrom(_, _, _)
pathLengthFrom(s, pos, fuel) ==
    IF pos = s.start_pos THEN 0
    ELSE IF pos = None \/ fuel = 0 THEN Diverges
    ELSE LET rest == pathLengthFrom(s, s.grid[pos].ancestor, fuel - 1)
         IN  IF rest = Diverges THEN Diverges ELSE rest + 1

pathLength(s, pos) == pathLengthFrom(s, pos, GRID_SIZE * GRID_SIZE)

\* The while loop of colorPath on the grid g, from cell_pos: every cell on the
\* way to start_pos becomes PATH.  A walk that cannot end stops here when it
\* meets an absent ancestor or has no fuel left.
RECURSIVE colorPathFrom(_, _, _, _)
colorPathFrom(s, g, cell_pos, fuel) ==
    IF s.start_pos = cell_pos \/ cell_pos = None \/ fuel = 0 THEN g
    ELSE colorPathFrom(s, [g EXCEPT ![cell_pos].gridState = "PATH"],
                       g[cell_pos].ancestor, fuel - 1)

colorPath(s) ==
    [s EXCEPT !.grid = colorPathFrom(s, s.grid, s.grid[s.last_explored].ancestor,
                                     GRID_SIZE * GRID_SIZE)]

\* ------------------------------------- the data structure of each algorithm

\* The `data` argument search_impl receives from bfs, dfs, a_star, greedy_bfs.
data(s, algo) ==
    CASE algo = "BFS"        -> s.bfs_queue
      [] algo = "DFS"        -> s.dfs_stack
      [] algo = "A_STAR"     -> s.a_star_queue
      [] algo = "GREEDY_BFS" -> s.greedy_bfs_queue
      [] OTHER               -> s.beam_queue

with_data(s, algo, d) ==
    CASE algo = "BFS"        -> [s EXCEPT !.bfs_queue = d]
      [] algo = "DFS"        -> [s EXCEPT !.dfs_stack = d]
      [] algo = "A_STAR"     -> [s EXCEPT !.a_star_queue = d]
      [] algo = "GREEDY_BFS" -> [s EXCEPT !.greedy_bfs_queue = d]
      [] OTHER               -> [s EXCEPT !.beam_queue = d]

\* The positions held by a data structure (a heap entry is (priority, pos)).
positions(algo, d) ==
    IF algo \in {"A_STAR", "GREEDY_BFS"}
    THEN [i \in DOMAIN d |-> d[i][2]]
    ELSE d

\* get_next with a breadth-first queue that is taken from its newest end.
get_next_newest_first(s, algo) ==
    CASE algo \in {"BFS", "DFS"} -> pop(data(s, algo))
      [] OTHER -> LET r == heappop(data(s, algo))
                  IN  [item |-> r.item[2], rest |-> r.rest]

\* The get_next lambdas: popleft for bfs, pop for dfs, heappop(...)[1] for
\* a_star and greedy_bfs.  The taken position and what is left.
get_next(s, algo) ==
    CASE algo = "BFS" -> popleft(s.bfs_queue)
      [] algo = "DFS" -> pop(s.dfs_stack)
      [] OTHER        -> LET r == heappop(data(s, algo))
                         IN  [item |-> r.item[2], rest |-> r.rest]

\* The add lambdas: append for bfs and dfs, heappush with the priority
\* heuristic(current) + pathLength(last_explored) for a_star and with
\* heuristic(current) for greedy_bfs.
add(s, algo, current) ==
    CASE algo = "BFS" ->
            [s EXCEPT !.bfs_queue = Append(@, current)]
      [] algo = "DFS" ->
            [s EXCEPT !.dfs_stack = Append(@, current)]
      [] algo = "A_STAR" ->
            [s EXCEPT !.a_star_queue =
                heappush(@, << <<heuristic(s, current),
                                 pathLength(s, s.last_explored)>>, current >>)]
      [] OTHER ->
            [s EXCEPT !.greedy_bfs_queue =
                heappush(@, << <<heuristic(s, current), 0>>, current >>)]

\* dfs_handle_existing_neighbor without the rewrite of the ancestor.
dfs_move_only(s, current) ==
    [s EXCEPT !.dfs_stack = Append(remove(@, current), current)]

\* dfs_handle_existing_neighbor: move current to the end of the stack and
\* rewrite its ancestor.
dfs_handle_existing_neighbor(s, current) ==
    [s EXCEPT !.dfs_stack = Append(remove(@, current), current),
              !.grid = [@ EXCEPT ![current].ancestor = s.last_explored]]

\* The handleExistingNeighbor argument: dfs passes its handler, the others the
\* default lambda, which does nothing.
handleExistingNeighbor(s, algo, current) ==
    IF algo = "DFS" THEN dfs_handle_existing_neighbor(s, current) ELSE s

\* ------------------------------------------------------------ explore_next

\* if self.last_explored != self.start_pos: the last explored cell becomes SEEN.
unset_last_seen(s) ==
    IF s.last_explored # s.start_pos
    THEN [s EXCEPT !.grid = [@ EXCEPT ![s.last_explored].gridState = "SEEN"]]
    ELSE s

\* self.last_explored = get_next(); the cell becomes CURRENT; one more visit.
set_new_current(s, algo) ==
    LET r == get_next(s, algo)
    IN  [with_data(s, algo, r.rest) EXCEPT
            !.last_explored = r.item,
            !.grid = [@ EXCEPT ![r.item].gridState = "CURRENT"],
            !.cells_visited = @ + 1]

\* explore_next returns a bool and changes the engine: the record holds both.
\* The stale-entry test at the end reads the cell after the else-branch has
\* already made it CURRENT.
RECURSIVE explore_next(_, _)
explore_next(s, algo) ==
    IF s.finished THEN [sm |-> s, continue |-> FALSE]
    ELSE IF ~s.path_started
    THEN LET s1 == [s EXCEPT !.last_explored = s.start_pos,
                             !.path_started = TRUE]
         IN  IF s1.grid[s1.last_explored].gridState = "OBSTACLE"
             THEN explore_next(s1, algo)
             ELSE [sm |-> s1, continue |-> TRUE]
    ELSE LET s1 == unset_last_seen(s)
         IN  IF Len(data(s1, algo)) < 1
             THEN [sm |-> s1, continue |-> FALSE]
             ELSE LET s2 == set_new_current(s1, algo)
                  IN  IF s2.last_explored = s2.goal_pos
                      THEN [sm |-> [colorPath(s2) EXCEPT !.finished = TRUE],
                            continue |-> FALSE]
                      ELSE IF s2.grid[s2.last_explored].gridState = "OBSTACLE"
                      THEN explore_next(s2, algo)
                      ELSE [sm |-> s2, continue |-> TRUE]

\* ----------------------------------------------------------- add_neighbors

\* The membership loop of add_neighbors, `cell == current` for cell in
\* next_options.  A heap holds (priority, pos) pairs, and a pair is never equal
\* to a position, so for a_star and greedy_bfs the loop finds nothing.
in_next(s, algo, current) ==
    IF algo \in {"A_STAR", "GREEDY_BFS"}
    THEN FALSE
    ELSE \E i \in DOMAIN data(s, algo) : data(s, algo)[i] = current

\* The test of line 324 without its look at the state of the cell.
eligible_in_bounds(s, current) ==
    /\ 0 <= current[1] /\ current[1] < GRID_SIZE
    /\ 0 <= current[2] /\ current[2] < GRID_SIZE

\* The test of line 324: in bounds, and UNEXPLORED or GOAL.
eligible(s, current) ==
    /\ 0 <= current[1] /\ current[1] < GRID_SIZE
    /\ 0 <= current[2] /\ current[2] < GRID_SIZE
    /\ s.grid[current].gridState \in {"UNEXPLORED", "GOAL"}

\* A round of the for loop that forgets the ancestor of a cell it inserts.
add_neighbor_no_ancestor(s, algo, d) ==
    LET current == <<s.last_explored[1] + d[1], s.last_explored[2] + d[2]>>
    IN  IF ~(/\ 0 <= current[1] /\ current[1] < GRID_SIZE
             /\ 0 <= current[2] /\ current[2] < GRID_SIZE
             /\ s.grid[current].gridState \in {"UNEXPLORED", "GOAL"}) THEN s
        ELSE IF ~in_next(s, algo, current)
        THEN add(s, algo, current)
        ELSE handleExistingNeighbor(s, algo, current)

\* One round of the for loop, for the offset d.
add_neighbor(s, algo, d) ==
    LET current == <<s.last_explored[1] + d[1], s.last_explored[2] + d[2]>>
    IN  IF ~eligible(s, current) THEN s
        ELSE IF ~in_next(s, algo, current)
        THEN [add(s, algo, current) EXCEPT
                 !.grid = [@ EXCEPT ![current].ancestor = s.last_explored]]
        ELSE handleExistingNeighbor(s, algo, current)

\* The first k rounds of the for loop.
RECURSIVE add_neighbors_upto(_, _, _)
add_neighbors_upto(s, algo, k) ==
    IF k = 0 THEN s
    ELSE add_neighbor(add_neighbors_upto(s, algo, k - 1), algo, Directions[k])

add_neighbors(s, algo) == add_neighbors_upto(s, algo, Len(Directions))

\* ------------------------------------------------------ search_impl, search

search_impl(s, algo) ==
    LET r == explore_next(s, algo)
    IN  IF ~r.continue THEN r.sm ELSE add_neighbors(r.sm, algo)

\* beam is `pass`: a step of Algorithm.BEAM changes nothing.
search(s, algo) ==
    IF algo = "BEAM" THEN s ELSE search_impl(s, algo)

\* ------------------------------------------------ run_algorithm_to_completion

\* The while loop with `steps <= max_steps` for its bound.
RECURSIVE run_loop_one_more(_, _, _)
run_loop_one_more(s, algo, steps) ==
    IF ~(~s.finished /\ steps <= GRID_SIZE * GRID_SIZE * 2)
    THEN [sm |-> s, steps |-> steps]
    ELSE LET s1 == search(s, algo)
         IN  IF steps + 1 > 0 /\ ~s1.path_started
             THEN [sm |-> s1, steps |-> steps + 1]
             ELSE run_loop_one_more(s1, algo, steps + 1)

\* The while loop, after `steps` rounds.  It returns the engine and the steps
\* made.  The break needs path_started false after a step.
RECURSIVE run_loop(_, _, _)
run_loop(s, algo, steps) ==
    IF ~(~s.finished /\ steps < GRID_SIZE * GRID_SIZE * 2)
    THEN [sm |-> s, steps |-> steps]
    ELSE LET s1 == search(s, algo)
         IN  IF steps + 1 > 0 /\ ~s1.path_started
             THEN [sm |-> s1, steps |-> steps + 1]
             ELSE run_loop(s1, algo, steps + 1)

\* The engine after the call, the returned metrics, and the steps made.
run_algorithm_to_completion(s, algo) ==
    LET r == run_loop(reset(s), algo, 0)
    IN  [sm      |-> r.sm,
         steps   |-> r.steps,
         metrics |-> [algorithm     |-> algo,
                      cells_visited |-> r.sm.cells_visited,
                      path_length   |-> IF r.sm.finished
                                        THEN pathLength(r.sm, r.sm.goal_pos)
                                        ELSE 0,
                      goal_reached  |-> r.sm.finished]]

\* ------------------------------------------------------------------ state

VARIABLES
    sm,       \* searchManager, the engine
    algo,     \* algo_dropdown.getSelected(), the selected algorithm
    result,   \* what the last run_algorithm_to_completion returned, or None
    edits,    \* the grid edits made so far
    rt        \* the threads of main.py: play_thread, the events, who is where

vars == <<sm, algo, result, edits, rt>>

\* main.py before the first event: no play thread, both events clear, the
\* main thread in its event loop.  pc is the place of the thread of
\* run_search, m_pc that of the main thread; d_algo and m_algo are the
\* algorithm of the step each of them is in; d_next is the container the
\* step of run_search holds when reset has replaced it meanwhile; built_by
\* is the algorithm whose step began the present run.
RtInit ==
    [play_thread |-> "None", pause_event |-> FALSE, end_event |-> FALSE,
     pc |-> "idle", d_algo |-> None, d_next |-> None,
     m_pc |-> "events", m_algo |-> None, built_by |-> None]

\* A maze as the start-up code of main.py builds it from a saved file: the
\* cells of the file, then set_start and set_goal for its START and GOAL cell.
loaded_maze(start, goal, obstacles) ==
    set_goal(
        set_start(
            [SearchManager EXCEPT
                !.grid = [p \in Pos |-> IF p \in obstacles
                                        THEN Cell("OBSTACLE")
                                        ELSE Cell("UNEXPLORED")]],
            start),
        goal)

\* The in-bounds cardinal neighbours of p.
Neighbours(p) ==
    { q \in Pos : \E i \in DOMAIN Directions :
                      q = <<p[1] + Directions[i][1], p[2] + Directions[i][2]>> }

\* Obstacle sets: at most MaxObstacles cells anywhere.
FreeObstacles(start, goal) ==
    { o \in SUBSET (Pos \ {start, goal}) : Cardinality(o) <= MaxObstacles }

\* Obstacle sets that also wall in the goal: every neighbour of the goal is an
\* obstacle (the start is not a neighbour of the goal).
WalledObstacles(start, goal) ==
    IF start \in Neighbours(goal) THEN {}
    ELSE { o \cup Neighbours(goal) : o \in FreeObstacles(start, goal) }

\* The mazes with the given start cells; with `walled`, those with a walled-in
\* goal too.
Mazes(starts, walled) ==
    UNION { UNION { { loaded_maze(start, goal, o) :
                        o \in FreeObstacles(start, goal) \cup
                              (IF walled THEN WalledObstacles(start, goal) ELSE {}) } :
                    goal \in Pos \ {start} } :
            start \in starts }

\* The start cells of the mazes: a corner and an inner cell.
StartCells == {<<0, 0>>, <<1, 1>>}

\* The interactive program starts on a maze with its start in the corner; the
\* clicks move it.
Init ==
    /\ sm \in Mazes({<<0, 0>>}, FALSE)
    /\ algo \in Algorithm
    /\ result = None
    /\ edits = 0
    /\ rt = RtInit

\* A run on a maze that is not edited.
InitRun ==
    /\ sm \in Mazes(StartCells, TRUE)
    /\ algo \in Algorithm
    /\ result = None
    /\ edits = 0
    /\ rt = RtInit

\* ---------------------------------------------------------------- actions

\* One step: the `next` button, or one round of run_search.  An engine without
\* a start or a goal raises TypeError here.
Search ==
    /\ sm.start_pos # None /\ sm.goal_pos # None
    /\ sm' = search(sm, algo)
    /\ UNCHANGED <<algo, result, edits, rt>>

\* The `reset` button.
Reset ==
    /\ sm' = reset(sm)
    /\ UNCHANGED <<algo, result, edits, rt>>

\* A click on cell p in EditMode.START.
ClickStart(p) ==
    /\ edits < MaxEdits
    /\ sm' = set_start(sm, p)
    /\ edits' = edits + 1
    /\ UNCHANGED <<algo, result, rt>>

\* A click on cell p in EditMode.GOAL.
ClickGoal(p) ==
    /\ edits < MaxEdits
    /\ sm.grid[p].gridState = "UNEXPLORED"
    /\ sm' = set_goal(sm, p)
    /\ edits' = edits + 1
    /\ UNCHANGED <<algo, result, rt>>

\* A click on cell p in EditMode.OBSTACLES.
ClickObstacle(p) ==
    /\ edits < MaxEdits
    /\ sm.grid[p].gridState \in {"UNEXPLORED", "OBSTACLE"}
    /\ sm' = [sm EXCEPT !.grid = [@ EXCEPT ![p].gridState =
                 IF sm.grid[p].gridState = "UNEXPLORED"
                 THEN "OBSTACLE" ELSE "UNEXPLORED"]]
    /\ edits' = edits + 1
    /\ UNCHANGED <<algo, result, rt>>

\* One round of run_analysis: reset, then run_algorithm_to_completion; the
\* algorithm it is called with is the one Init drew.
RunToCompletion ==
    /\ sm.start_pos # None /\ sm.goal_pos # None
    /\ LET r == run_algorithm_to_completion(reset(sm), algo)
       IN  /\ sm' = r.sm
           /\ result' = [steps |-> r.steps, metrics |-> r.metrics]
    /\ UNCHANGED <<algo, edits, rt>>

Next ==
    \/ Search
    \/ Reset
    \/ \E p \in Pos : ClickStart(p)
    \/ \E p \in Pos : ClickGoal(p)
    \/ \E p \in Pos : ClickObstacle(p)

Spec == Init /\ [][Next]_vars

NextRun ==
    \/ Search
    \/ Reset

SpecRun == InitRun /\ [][NextRun]_vars

NextBatch ==
    RunToCompletion

SpecBatch == InitRun /\ [][NextBatch]_vars

\* ------------------------------------------------------ mazes with detours

\* Mazes whose obstacles are drawn from a diagonal band, with the start in the
\* corner above it: the way to a goal below the band goes round it.
DetourCells == {<<0, 0>>, <<0, 1>>, <<1, 1>>, <<2, 2>>}

DetourStart == <<0, 3>>

InitDetour ==
    /\ \E o \in SUBSET DetourCells :
           \E goal \in Pos \ (o \cup {DetourStart}) :
               sm = loaded_maze(DetourStart, goal, o)
    /\ algo \in Algorithm
    /\ result = None
    /\ edits = 0
    /\ rt = RtInit

SpecDetour == InitDetour /\ [][NextRun]_vars

\* ------------------------------------------- the play thread and the buttons

\* The maze of this part: obstacles leave the cells of rows 0 and 1, columns
\* 0 to 2, to the search; the goal is in the far corner of them; the clicks
\* land on two cells next to the start and the goal.
DriverWalls == {<<0, 3>>, <<1, 3>>, <<2, 0>>, <<2, 1>>, <<2, 2>>}

DriverGoal == <<1, 2>>

DriverCells == {<<0, 1>>, <<1, 1>>}

\* The membership loop of add_neighbors run on a container that reset has
\* replaced since search_impl received it: `next_options` is the old object.
in_held(a, held, current) ==
    IF a \in {"A_STAR", "GREEDY_BFS"}
    THEN FALSE
    ELSE \E i \in DOMAIN held : held[i] = current

\* One round of the for loop on such a container.  add and the handler of dfs
\* act on the container the engine holds now; list.remove of a position that
\* is not in it raises ValueError.
add_neighbor_held(r, a, held, d) ==
    IF r.raised THEN r
    ELSE LET s == r.sm
             current == <<s.last_explored[1] + d[1], s.last_explored[2] + d[2]>>
         IN  IF ~eligible(s, current) THEN r
             ELSE IF ~in_held(a, held, current)
             THEN [sm |-> [add(s, a, current) EXCEPT
                              !.grid = [@ EXCEPT ![current].ancestor = s.last_explored]],
                   raised |-> FALSE]
             ELSE IF a = "DFS" /\ ~in_next(s, a, current)
             THEN [sm |-> s, raised |-> TRUE]
             ELSE [sm |-> handleExistingNeighbor(s, a, current), raised |-> FALSE]

RECURSIVE add_neighbors_held(_, _, _, _)
add_neighbors_held(s, a, held, k) ==
    IF k = 0 THEN [sm |-> s, raised |-> FALSE]
    ELSE add_neighbor_held(add_neighbors_held(s, a, held, k - 1), a, held,
                           Directions[k])

\* add_neighbors as a thread runs it after its explore_next returned True:
\* `x, y = self.last_explored` raises TypeError when a reset has made it None.
expand(s, a, held) ==
    IF s.last_explored = None THEN [sm |-> s, raised |-> TRUE]
    ELSE IF held = None THEN [sm |-> add_neighbors(s, a), raised |-> FALSE]
    ELSE add_neighbors_held(s, a, held[1], Len(Directions))

\* The algorithm whose step began the run, after a step of algorithm a that
\* took the engine from s to s1.
builder(s, s1, a, was) ==
    IF ~s.path_started /\ s1.path_started THEN a ELSE was

\* A reset of set_start that runs while the step of run_search is between explore_next and
\* add_neighbors leaves that step with the old container.
held_after_reset(s) ==
    IF rt.pc = "expand" /\ rt.d_next = None
    THEN <<data(s, rt.d_algo)>>
    ELSE rt.d_next

InitDriver ==
    /\ sm = loaded_maze(<<0, 0>>, DriverGoal, DriverWalls)
    /\ algo \in Algorithm
    /\ result = None
    /\ edits = 0
    /\ rt = RtInit

\* The `play` button: play_search starts a thread unless one is alive.
PlaySearch ==
    /\ rt.m_pc = "events" /\ rt.play_thread # "alive"
    /\ rt' = [rt EXCEPT !.end_event = FALSE, !.pause_event = FALSE,
                        !.play_thread = "alive", !.pc = "loop"]
    /\ UNCHANGED <<sm, algo, result, edits>>

\* The `pause` button: toggle_pause.
TogglePause ==
    /\ rt.m_pc = "events"
    /\ rt' = [rt EXCEPT !.pause_event = ~@]
    /\ UNCHANGED <<sm, algo, result, edits>>

\* run_search at the head of its loop that never takes the pause test for an
\* answer.
DriverLoopNoPause ==
    /\ rt.pc = "loop"
    /\ rt' = IF rt.end_event \/ sm.finished
             THEN [rt EXCEPT !.pc = "idle", !.play_thread = "dead"]
             ELSE [rt EXCEPT !.pc = "take"]
    /\ UNCHANGED <<sm, algo, result, edits>>

\* run_search at the head of its loop: it returns when end_event is set or the
\* engine is finished, goes on to call search when pause_event is clear, and
\* comes round again when it is set.
DriverLoop ==
    /\ rt.pc = "loop"
    /\ rt' = IF rt.end_event \/ sm.finished
             THEN [rt EXCEPT !.pc = "idle", !.play_thread = "dead"]
             ELSE IF ~rt.pause_event THEN [rt EXCEPT !.pc = "take"]
             ELSE rt
    /\ UNCHANGED <<sm, algo, result, edits>>

\* run_search calls search with the algorithm selected now: explore_next.
DriverTake ==
    /\ rt.pc = "take"
    /\ LET r == explore_next(sm, algo)
       IN  IF algo = "BEAM"
           THEN sm' = sm /\ rt' = [rt EXCEPT !.pc = "loop"]
           ELSE /\ sm' = r.sm
                /\ rt' = [rt EXCEPT
                             !.pc = IF r.continue THEN "expand" ELSE "loop",
                             !.d_algo = IF r.continue THEN algo ELSE None,
                             !.built_by = builder(sm, r.sm, algo, @)]
    /\ UNCHANGED <<algo, result, edits>>

\* The same call goes on to add_neighbors; an exception ends the thread.
DriverExpand ==
    /\ rt.pc = "expand"
    /\ LET r == expand(sm, rt.d_algo, rt.d_next)
       IN  /\ sm' = r.sm
           /\ rt' = IF r.raised
                    THEN [rt EXCEPT !.pc = "idle", !.play_thread = "dead",
                                    !.d_algo = None, !.d_next = None]
                    ELSE [rt EXCEPT !.pc = "loop", !.d_algo = None, !.d_next = None]
    /\ UNCHANGED <<algo, result, edits>>

\* The `next` button calls search on the main thread: explore_next.
NextTake ==
    /\ rt.m_pc = "events"
    /\ algo # "BEAM"
    /\ LET r == explore_next(sm, algo)
       IN  /\ sm' = r.sm
           /\ rt' = [rt EXCEPT
                        !.m_pc = IF r.continue THEN "expand" ELSE "events",
                        !.m_algo = IF r.continue THEN algo ELSE None,
                        !.built_by = builder(sm, r.sm, algo, @)]
    /\ UNCHANGED <<algo, result, edits>>

\* The same call goes on to add_neighbors.
NextExpand ==
    /\ rt.m_pc = "expand"
    /\ sm' = expand(sm, rt.m_algo, None).sm
    /\ rt' = [rt EXCEPT !.m_pc = "events", !.m_algo = None]
    /\ UNCHANGED <<algo, result, edits>>

\* The `reset` button, reset() of main.py: with a play thread it sets
\* end_event and waits in join; without one it resets the engine at once.
ResetBegin ==
    /\ rt.m_pc = "events"
    /\ IF rt.play_thread # "None"
       THEN sm' = sm /\ rt' = [rt EXCEPT !.end_event = TRUE, !.m_pc = "join"]
       ELSE sm' = reset(sm) /\ rt' = [rt EXCEPT !.built_by = None]
    /\ UNCHANGED <<algo, result, edits>>

\* join returns when the thread has ended; then the engine is reset.
ResetFinish ==
    /\ rt.m_pc = "join" /\ rt.play_thread = "dead"
    /\ sm' = reset(sm)
    /\ rt' = [rt EXCEPT !.play_thread = "None", !.m_pc = "events",
                        !.built_by = None]
    /\ UNCHANGED <<algo, result, edits>>

\* A click on p in EditMode.START while the threads run: set_start resets a
\* run that has begun, whatever the play thread is doing.
DriverClickStart(p) ==
    /\ rt.m_pc = "events" /\ edits < MaxEdits
    /\ sm' = set_start(sm, p)
    /\ rt' = IF sm.path_started
             THEN [rt EXCEPT !.d_next = held_after_reset(sm), !.built_by = None]
             ELSE rt
    /\ edits' = edits + 1
    /\ UNCHANGED <<algo, result>>

DriverClickGoal(p) ==
    /\ rt.m_pc = "events"
    /\ ClickGoal(p)

DriverClickObstacle(p) ==
    /\ rt.m_pc = "events"
    /\ ClickObstacle(p)

\* A choice in algo_dropdown: nothing is attached to it, the next call of
\* getSelected returns the new value.
SelectAlgorithm(a) ==
    /\ rt.m_pc = "events" /\ edits < MaxEdits
    /\ a # algo
    /\ algo' = a
    /\ edits' = edits + 1
    /\ UNCHANGED <<sm, result, rt>>

GridEdit ==
    \/ \E p \in DriverCells : DriverClickStart(p)
    \/ \E p \in DriverCells : DriverClickGoal(p)
    \/ \E p \in DriverCells : DriverClickObstacle(p)

NextDriver ==
    \/ PlaySearch
    \/ TogglePause
    \/ DriverLoop
    \/ DriverTake
    \/ DriverExpand
    \/ NextTake
    \/ NextExpand
    \/ ResetBegin
    \/ ResetFinish
    \/ GridEdit
    \/ \E a \in Algorithm : SelectAlgorithm(a)

SpecDriver == InitDriver /\ [][NextDriver]_vars

\* Whole steps, resets and a change of the selected algorithm.
NextSwitch ==
    \/ Search
    \/ Reset
    \/ \E a \in Algorithm : SelectAlgorithm(a)

SpecSwitch == InitDriver /\ [][NextSwitch]_vars

\* ------------------------------------------------- what the claims speak of

\* The positions waiting in the frontier of the selected algorithm.
Frontier(s, a) ==
    LET d == positions(a, data(s, a))
    IN  { d[i] : i \in DOMAIN d }

\* A transition that is one step of the selected algorithm.
IsStep == sm' = search(sm, algo) /\ UNCHANGED <<algo, result, edits>>

\* A stale entry: a position of the frontier whose cell is now an obstacle.
Stale(s, a, p) == p \in Frontier(s, a) /\ s.grid[p].gridState = "OBSTACLE"

\* C1: a position that was toggled to OBSTACLE while it sat in the frontier is
\* never explored: no transition makes it CURRENT or last_explored, and a step
\* leaves its cell OBSTACLE.
C1_StaleEntryNeverExplored ==
    [][\A p \in Frontier(sm, algo) :
          sm.grid[p].gridState = "OBSTACLE" =>
              /\ sm'.grid[p].gridState # "CURRENT"
              /\ sm'.last_explored # p
              /\ (IsStep => sm'.grid[p].gridState = "OBSTACLE")]_vars

\* C2 as stated: after every completed step no position of the frontier is an
\* obstacle.
C2_FrontierExcludesObstacles ==
    [][IsStep => \A p \in Frontier(sm', algo') :
                     sm'.grid[p].gridState # "OBSTACLE"]_vars

\* C2 as amended: no step inserts an obstacle.  A position of the frontier that
\* is an obstacle after a transition was in the frontier before it: it turned
\* into an obstacle while it waited there.
C2_NoObstacleInserted ==
    [][\A p \in Frontier(sm', algo') :
          sm'.grid[p].gridState = "OBSTACLE" => p \in Frontier(sm, algo)]_vars

\* C2's case: a depth-first step has expanded last_explored while a stale
\* entry waited in the stack next to it.  (Had the entry been toggled after
\* that step, the step would have made last_explored its ancestor.)
C2_Witness ==
    /\ algo = "DFS" /\ sm.path_started /\ ~sm.finished
    /\ sm.grid[sm.last_explored].gridState = "CURRENT"
    /\ \E q \in Frontier(sm, algo) : sm.grid[q].ancestor = sm.last_explored
    /\ \E p \in Neighbours(sm.last_explored) :
           Stale(sm, algo, p) /\ sm.grid[p].ancestor # sm.last_explored

\* C3: reset, called in this state, keeps every OBSTACLE, START and GOAL cell
\* and makes every SEEN, CURRENT and PATH cell UNEXPLORED (GOAL for the goal).
C3_ResetPreservesMaze ==
    \A p \in Pos :
        LET before == sm.grid[p].gridState
            after  == reset(sm).grid[p].gridState
        IN  /\ before \in {"OBSTACLE", "START", "GOAL"} => after = before
            /\ before \in {"SEEN", "CURRENT", "PATH"} =>
                   after = IF p = sm.goal_pos THEN "GOAL" ELSE "UNEXPLORED"

\* The cells a path may cross.
Passable(s) == { p \in Pos : s.grid[p].gridState # "OBSTACLE" }

\* The goal cannot be reached: no path is as long as this.
Unreachable == GRID_SIZE * GRID_SIZE

\* The least number of cardinal steps from a cell of `layer` to the goal through
\* passable cells, plus d; `seen` holds the cells at distance at most d.
RECURSIVE StepsToGoal(_, _, _, _)
StepsToGoal(s, seen, layer, d) ==
    IF s.goal_pos \in layer THEN d
    ELSE IF layer = {} THEN Unreachable
    ELSE LET next == (UNION { Neighbours(p) : p \in layer } \cap Passable(s)) \ seen
         IN  StepsToGoal(s, seen \cup next, next, d + 1)

ShortestPath(s) == StepsToGoal(s, {s.start_pos}, {s.start_pos}, 0)

Abs(n) == IF n < 0 THEN -n ELSE n

Manhattan(p, q) == Abs(p[1] - q[1]) + Abs(p[2] - q[2])

\* C4: when breadth-first has found the goal, pathLength(goal) is the least
\* number of cardinal steps from start to goal through non-obstacle cells, and
\* on a grid without obstacles the Manhattan distance.
C4_BfsShortestPath ==
    (algo = "BFS" /\ sm.finished) =>
        /\ pathLength(sm, sm.goal_pos) = ShortestPath(sm)
        /\ Passable(sm) = Pos =>
               pathLength(sm, sm.goal_pos) = Manhattan(sm.start_pos, sm.goal_pos)

\* C4's case: breadth-first has found a goal that an obstacle forces a detour to.
C4_Witness ==
    /\ algo = "BFS" /\ sm.finished
    /\ pathLength(sm, sm.goal_pos) > Manhattan(sm.start_pos, sm.goal_pos)

\* C4's second case: breadth-first has found the goal in the far corner of a
\* grid without obstacles.
C4_WitnessOpen ==
    /\ algo = "BFS" /\ sm.finished /\ Passable(sm) = Pos
    /\ pathLength(sm, sm.goal_pos) = 2 * (GRID_SIZE - 1)

\* C5: within a run the visited count never decreases from one step to the
\* next, and it never exceeds the number of cells.
C5_MonotonicVisits ==
    /\ [](sm.cells_visited <= GRID_SIZE * GRID_SIZE)
    /\ [][IsStep => sm'.cells_visited >= sm.cells_visited]_vars

\* The goal is walled in: each of its neighbours is an obstacle.
GoalEnclosed(s) ==
    /\ s.start_pos # s.goal_pos
    /\ \A q \in Neighbours(s.goal_pos) : s.grid[q].gridState = "OBSTACLE"

\* C6: with the goal walled in, run_algorithm_to_completion makes at most
\* 2 * size * size steps and returns goal_reached false and path_length 0.
C6_UnreachableGoal ==
    (result # None /\ GoalEnclosed(sm)) =>
        /\ result.steps <= 2 * GRID_SIZE * GRID_SIZE
        /\ result.metrics.goal_reached = FALSE
        /\ result.metrics.path_length = 0

\* C6's case: a run to completion of depth-first with the goal walled in, which
\* has explored cells and stepped up to the cap.
C6_Witness ==
    /\ result # None /\ GoalEnclosed(sm) /\ algo = "DFS"
    /\ result.steps = 2 * GRID_SIZE * GRID_SIZE
    /\ result.metrics.cells_visited > 0

\* C7: with a goal that can be reached, run_algorithm_to_completion of
\* breadth-first, depth-first, greedy and A* returns goal_reached true.
C7_ReachableGoalFound ==
    (/\ result # None
     /\ algo \in {"BFS", "DFS", "GREEDY_BFS", "A_STAR"}
     /\ ShortestPath(sm) # Unreachable) =>
        /\ result.metrics.goal_reached = TRUE
        /\ result.steps <= 2 * GRID_SIZE * GRID_SIZE

\* C8: while a run is active exactly one cell is START, the one at start_pos,
\* and exactly one is GOAL, the one at goal_pos.
C8_OneStartOneGoal ==
    (sm.path_started /\ ~sm.finished) =>
        /\ { p \in Pos : sm.grid[p].gridState = "START" } = {sm.start_pos}
        /\ { p \in Pos : sm.grid[p].gridState = "GOAL" } = {sm.goal_pos}

\* The positions that are in the frontier or have been explored.
FrontierOrExplored(s, a) ==
    Frontier(s, a) \cup
    { p \in Pos : s.grid[p].gridState \in {"SEEN", "CURRENT", "PATH"} }

\* C9: from every position that is in the frontier or has been explored, the
\* walk along ancestors reaches start_pos in fewer than size * size hops; so it
\* meets no absent ancestor and no position twice.
C9_AncestorChainsEndAtStart ==
    \A p \in FrontierOrExplored(sm, algo) :
        /\ pathLength(sm, p) # Diverges
        /\ pathLength(sm, p) < GRID_SIZE * GRID_SIZE

\* C9's case: a grid that was edited during the run, with a position in the
\* frontier four or more hops from the start and a found goal with its path.
C9_Witness ==
    /\ edits > 0 /\ sm.finished
    /\ \E p \in Frontier(sm, algo) : pathLength(sm, p) >= 4
    /\ \E p \in Pos : sm.grid[p].gridState = "PATH"

\* How often x occurs in the sequence st.
Count(st, x) == Cardinality({ i \in DOMAIN st : st[i] = x })

\* C10: in a depth-first step, each round of add_neighbors that meets an
\* eligible neighbour already in the stack leaves it at the end of the stack,
\* once, with the expanded cell as its ancestor; and after the step its
\* ancestor is the expanded cell.
C10_DfsReinsertion ==
    LET r == explore_next(sm, algo)
        e == r.sm.last_explored
    IN  (algo = "DFS" /\ sm.start_pos # None /\ r.continue) =>
            \A k \in DOMAIN Directions :
                LET before  == add_neighbors_upto(r.sm, algo, k - 1)
                    after   == add_neighbors_upto(r.sm, algo, k)
                    current == <<e[1] + Directions[k][1], e[2] + Directions[k][2]>>
                IN  (eligible(before, current) /\ in_next(before, algo, current)) =>
                        /\ after.dfs_stack[Len(after.dfs_stack)] = current
                        /\ Count(after.dfs_stack, current) = 1
                        /\ after.grid[current].ancestor = e
                        /\ search(sm, algo).grid[current].ancestor = e
                        /\ Count(search(sm, algo).dfs_stack, current) = 1

\* C10's case: depth-first has expanded last_explored next to a cell of the
\* stack that an earlier explored cell had discovered (the grid was not
\* edited), and that cell now records last_explored as its ancestor.
C10_Witness ==
    /\ algo = "DFS" /\ edits = 0 /\ sm.path_started /\ ~sm.finished
    /\ \E c \in Frontier(sm, algo) \cap Neighbours(sm.last_explored) :
           /\ sm.grid[c].ancestor = sm.last_explored
           /\ \E q \in Neighbours(c) :
                  q # sm.last_explored /\ sm.grid[q].gridState = "SEEN"

\* A terminal state of a run: the goal was found, or the frontier of the
\* selected algorithm is empty.
Terminal(s, a) == s.path_started /\ (s.finished \/ Len(data(s, a)) = 0)

\* C11: in a state where the goal has been found a step call changes nothing,
\* and neither does any step call in the state a step reaches after it found
\* the goal or found the frontier empty.  search takes the algorithm as its
\* argument: a step call is search(sm, a) for any a.
C11_TerminalStepsNoOps ==
    /\ [](sm.finished => \A a \in Algorithm : search(sm, a) = sm)
    /\ [][(IsStep /\ Terminal(sm, algo)) =>
              \A a \in Algorithm : search(sm', a) = sm']_vars

\* C12: a step of a run that finds the frontier empty makes the run finished.
C12_ExhaustionFinishes ==
    (/\ sm.path_started /\ ~sm.finished
     /\ algo # "BEAM" /\ Len(data(sm, algo)) = 0) =>
        search(sm, algo).finished

\* A click on p in EditMode.START has just been handled.
IsSetStart(p) ==
    sm' = set_start(sm, p) /\ edits' = edits + 1 /\ UNCHANGED <<algo, result>>

\* C13: set_start on a run that has begun leaves an engine that has not
\* started, with no visit, no last explored cell, empty frontiers and no SEEN,
\* CURRENT or PATH cell; the new position is the only START cell, the
\* obstacles are the same cells as before, and the goal is where it was.
C13_SetStartResets ==
    [][\A p \in Pos : (sm.path_started /\ IsSetStart(p)) =>
          /\ ~sm'.path_started /\ ~sm'.finished
          /\ sm'.cells_visited = 0 /\ sm'.last_explored = None
          /\ \A a \in Algorithm : Len(data(sm', a)) = 0
          /\ \A q \in Pos : sm'.grid[q].gridState \notin {"SEEN", "CURRENT", "PATH"}
          /\ { q \in Pos : sm'.grid[q].gridState = "START" } = {p}
          /\ { q \in Pos : sm'.grid[q].gridState = "OBSTACLE" } =
                 { q \in Pos : sm.grid[q].gridState = "OBSTACLE" }
          /\ sm'.goal_pos = sm.goal_pos
          /\ { q \in Pos : sm'.grid[q].gridState = "GOAL" } = {sm.goal_pos}]_vars

\* C18: the frontier of the selected algorithm holds each position at most
\* once.
C18_InsertOnlyIfAbsent ==
    \A p \in Pos : Count(positions(algo, data(sm, algo)), p) <= 1

\* C19: in a breadth-first, greedy or A* step, each round of add_neighbors that
\* meets an eligible neighbour whose position is already in the frontier
\* leaves the ancestor of that neighbour and the frontier as they were.
C19_FirstDiscovererKept ==
    LET r == explore_next(sm, algo)
        e == r.sm.last_explored
    IN  (algo \in {"BFS", "GREEDY_BFS", "A_STAR"} /\ sm.start_pos # None
         /\ r.continue) =>
            \A k \in DOMAIN Directions :
                LET before  == add_neighbors_upto(r.sm, algo, k - 1)
                    after   == add_neighbors_upto(r.sm, algo, k)
                    current == <<e[1] + Directions[k][1], e[2] + Directions[k][2]>>
                IN  (eligible(before, current) /\ current \in Frontier(before, algo)) =>
                        /\ after.grid[current].ancestor = before.grid[current].ancestor
                        /\ data(after, algo) = data(before, algo)

\* The cells of the ancestor chain from pos back to the start, the start not
\* included.
RECURSIVE ChainFrom(_, _, _)
ChainFrom(s, pos, fuel) ==
    IF pos = s.start_pos \/ pos = None \/ fuel = 0 THEN {}
    ELSE {pos} \cup ChainFrom(s, s.grid[pos].ancestor, fuel - 1)

\* The cells strictly between the goal and the start on the goal's chain.
GoalChain(s) == ChainFrom(s, s.grid[s.goal_pos].ancestor, GRID_SIZE * GRID_SIZE)

\* A step that takes the goal from the frontier.
TakesGoal == IsStep /\ ~sm.finished /\ sm'.finished

\* C20: a step that takes the goal makes exactly the cells strictly between
\* goal and start on the goal's ancestor chain PATH, pathLength(goal) - 1 of
\* them; each cell of the chain and the goal is a cardinal neighbour of its
\* ancestor; the start cell is START; and apart from the chain, the goal cell
\* and the cell that was current before the step, no cell changes state.
C20_PathReconstruction ==
    [][TakesGoal =>
          /\ { p \in Pos : sm'.grid[p].gridState = "PATH" } = GoalChain(sm')
          /\ Cardinality(GoalChain(sm')) = pathLength(sm', sm'.goal_pos) - 1
          /\ \A p \in GoalChain(sm') \cup {sm'.goal_pos} :
                 Manhattan(p, sm'.grid[p].ancestor) = 1
          /\ sm'.grid[sm'.start_pos].gridState = "START"
          /\ \A p \in Pos \ (GoalChain(sm') \cup {sm.goal_pos, sm.last_explored}) :
                 sm'.grid[p].gridState = sm.grid[p].gridState]_vars

\* A thread begins a step: it calls search with the algorithm selected now.
StepBegins == DriverTake \/ NextTake

\* C14: no step begins on a run that a step of another algorithm began.
C14_SwitchResets ==
    [][(StepBegins /\ sm.path_started) => rt.built_by = algo]_vars

\* C15: no click on the grid is handled while the step of run_search is
\* between its explore_next and the end of its add_neighbors, and the step of
\* run_search and the step of the `next` button are never both under way.
C15_StepsAndEditsSerialized ==
    /\ [][GridEdit => rt.pc # "expand"]_vars
    /\ [](~(rt.pc = "expand" /\ rt.m_pc = "expand"))

\* The engine's reset runs: from the reset button, or in set_start on a run
\* that has begun.
ResetRuns ==
    \/ ResetBegin /\ rt.play_thread = "None"
    \/ ResetFinish
    \/ \E p \in DriverCells : DriverClickStart(p) /\ sm.path_started

\* C16: when a reset runs, no step of run_search is under way.
C16_ResetSerialized ==
    [][ResetRuns => rt.pc # "expand"]_vars

\* run_search is at the head of its loop with pause_event set.
Paused == rt.pause_event /\ rt.pc = "loop"

\* C17: while paused, run_search begins no step: it stays at the head of its
\* loop (or returns) until pause_event is cleared, the engine changes only by
\* what the main thread does, and the thread stays alive unless end_event is
\* set or the engine finished; and a change of pause_event under a live
\* thread changes nothing else.
C17_PauseResumable ==
    /\ [][(Paused /\ rt'.pause_event) => rt'.pc \in {"loop", "idle"}]_vars
    /\ [][(Paused /\ sm' # sm) =>
              (NextTake \/ NextExpand \/ ResetBegin \/ ResetFinish \/ GridEdit)]_vars
    /\ [][(Paused /\ ~rt.end_event /\ ~sm.finished) =>
              rt'.play_thread = "alive"]_vars
    /\ [][(rt.play_thread = "alive" /\ rt'.pause_event # rt.pause_event) =>
              /\ UNCHANGED <<sm, algo, result, edits>>
              /\ rt' = [rt EXCEPT !.pause_event = ~@]]_vars

\* C17's case: pause_event was set while a step of run_search was under way
\* (with it set, the thread does not leave the head of its loop), on a run of
\* the selected algorithm that has taken a cell from the frontier.
C17_Witness ==
    /\ rt.pause_event /\ rt.pc = "expand" /\ rt.play_thread = "alive"
    /\ rt.m_pc = "events" /\ edits = 0
    /\ rt.built_by = algo /\ sm.cells_visited >= 1

\* The eligible neighbours of p in the order add_neighbors walks them: up,
\* right, down, left.
NeighboursInOrder(s, p) ==
    LET at(i) == <<p[1] + Directions[i][1], p[2] + Directions[i][2]>>
        all == [i \in DOMAIN Directions |-> at(i)]
        ok(q) == q \in Pos /\ s.grid[q].gridState \in {"UNEXPLORED", "GOAL"}
    IN  SelectSeq(all, ok)

\* A run that has not started, with a start and a goal.
NotStarted(s) == ~s.path_started /\ s.start_pos # None /\ s.goal_pos # None

\* What C21 says of the engine s1 that one step of algorithm a leaves from s.
FirstStepDone(s, s1, a) ==
    LET nb == NeighboursInOrder(s, s.start_pos)
    IN  /\ s1.path_started
        /\ s1.last_explored = s.start_pos
        /\ s1.grid[s.start_pos].gridState = "START"
        /\ s1.cells_visited = 0
        /\ Frontier(s1, a) = { nb[i] : i \in DOMAIN nb }
        /\ Len(data(s1, a)) = Len(nb)
        /\ a \in {"BFS", "DFS"} => data(s1, a) = nb
        /\ \A i \in DOMAIN nb : s1.grid[nb[i]].ancestor = s.start_pos

\* C21: the first step of a run, under each of the five algorithms, starts the
\* run, makes the start position last_explored, leaves the start cell START
\* and the visited count 0, and puts every in-bounds UNEXPLORED or GOAL
\* neighbour of the start into the frontier, in the order up, right, down,
\* left, with the start as its ancestor.
C21_FirstStep ==
    NotStarted(sm) => FirstStepDone(sm, search(sm, algo), algo)

\* C22: in a greedy or A* step, a round of add_neighbors that pushes an entry
\* whose key is not smaller than the key at the head of the heap leaves the
\* head as it was: among entries with the smallest key, the one taken next is
\* one that was inserted earlier, never the one inserted last.
C22_TieBreakByInsertion ==
    LET r == explore_next(sm, algo)
    IN  (algo \in {"GREEDY_BFS", "A_STAR"} /\ sm.start_pos # None
         /\ r.continue) =>
            \A k \in DOMAIN Directions :
                LET before == data(add_neighbors_upto(r.sm, algo, k - 1), algo)
                    after  == data(add_neighbors_upto(r.sm, algo, k), algo)
                IN  (/\ Len(before) > 0
                     /\ Len(after) = Len(before) + 1
                     /\ ~KeyLess(Head(after)[1], Head(before)[1])) =>
                        Head(after) = Head(before)

\* C23: when A* has found a goal that can be reached, on a grid that was not
\* edited, pathLength(goal) is the least number of cardinal steps from start
\* to goal through non-obstacle cells.
C23_AStarOptimal ==
    (algo = "A_STAR" /\ sm.finished /\ edits = 0) =>
        pathLength(sm, sm.goal_pos) = ShortestPath(sm)

\* The positions a step of the run has taken from the frontier: their cells
\* are CURRENT, SEEN or PATH.
Explored(s) ==
    { p \in Pos : s.grid[p].gridState \in {"SEEN", "CURRENT", "PATH"} }

\* C24: a step that takes a position from the frontier takes one that no step
\* of the run has taken before, and the visited count is the number of
\* explored positions.
C24_ExploredOnce ==
    /\ [][(IsStep /\ sm'.cells_visited > sm.cells_visited) =>
              sm'.last_explored \notin Explored(sm)]_vars
    /\ [](sm.cells_visited = Cardinality(Explored(sm)))

\* The cells whose state is CURRENT.
CurrentCells(s) == { p \in Pos : s.grid[p].gridState = "CURRENT" }

\* C25: at most one cell is CURRENT, and if one is, it is the cell at
\* last_explored.
C25_OneCurrent ==
    CurrentCells(sm) \subseteq
        (IF sm.last_explored = None THEN {} ELSE {sm.last_explored})

\* The maze of the engine s: its obstacles, its start and its goal, as loaded.
MazeOf(s) ==
    loaded_maze(s.start_pos, s.goal_pos,
                { p \in Pos : s.grid[p].gridState = "OBSTACLE" })

\* C26: run_algorithm_to_completion, called in this state, returns the metrics
\* it returns on the same maze with an engine that never ran.
C26_CleanSlate ==
    (sm.start_pos # None /\ sm.goal_pos # None) =>
        run_algorithm_to_completion(sm, algo).metrics =
            run_algorithm_to_completion(MazeOf(sm), algo).metrics

====
